---- MODULE Spec2Model ----
(***************************************************************************)
(* The API-client core of the Syncphony front end: the module-level token  *)
(* cell (setAuthToken / getAuthToken), the request builder and response    *)
(* normaliser of apiClient, the exchange-offer facade that deletes an      *)
(* offer, and the AuthContext handlers that drive the token.               *)
(*                                                                         *)
(* JavaScript values are tagged records; strings are TLA+ strings, so that *)
(* template literals, JSON.stringify and JSON.parse are computed and not   *)
(* assumed.                                                                *)
(***************************************************************************)
EXTENDS Integers, Sequences, FiniteSets, TLC

VARIABLES
    currentAuthToken,   \* apiClient.ts: the module-level token cell
    lastSetArg,         \* history: argument of the latest setAuthToken call
    returned,           \* history: value returned by the latest getAuthToken call
    calls,              \* apiClient invocations suspended at `await fetch(...)`
    done,               \* the invocation that settled most recently
    user,               \* AuthProvider: useState user
    token,              \* AuthProvider: useState token
    isLoading,          \* AuthProvider: useState isLoading
    boot,               \* position of the mount effect's bootstrapAuth
    sessions,           \* positions of the fetchAndUpdateUserSession invocations
    facade,             \* position and result of the deleteExchangeOffer invocation
    lastOp,             \* history: the token or AuthProvider operation that ran last
    replayed,           \* the latest repeated run of the response normaliser
    offersScreen,       \* MyExchangeOffersScreen: its state and its handlers
    endorseScreen       \* GiveEndorsementScreen: its params, state and handler

vars == <<currentAuthToken, lastSetArg, returned, calls, done,
          user, token, isLoading, boot, sessions, facade, lastOp,
          replayed, offersScreen, endorseScreen>>

authVars == <<user, token, isLoading, boot, sessions>>

uiVars == <<replayed, offersScreen, endorseScreen>>

(***************************************************************************)
(* Bounds                                                                  *)
(***************************************************************************)
\* fetchAndUpdateUserSession invocations that may be open at the same time
MaxSessions == 2

(***************************************************************************)
(* JavaScript values                                                       *)
(***************************************************************************)
Undefined == [t |-> "undefined"]
Null      == [t |-> "null"]
Bool(b)   == [t |-> "bool", b |-> b]
Num(n)    == [t |-> "num", n |-> n]
Str(s)    == [t |-> "str", s |-> s]
\* an object literal: its own properties in insertion order, <<key, value>>
Obj(ps)   == [t |-> "obj", ps |-> ps]
\* an Error instance: message, plus the properties assigned to it afterwards
Err(m, ps) == [t |-> "error", message |-> m, ps |-> ps]

\* ToBoolean: what `if (v)` and `v || w` test
Truthy(v) ==
    CASE v.t = "undefined" -> FALSE
      [] v.t = "null"      -> FALSE
      [] v.t = "bool"      -> v.b
      [] v.t = "num"       -> v.n # 0
      [] v.t = "str"       -> v.s # ""
      [] OTHER             -> TRUE

\* v?.key  (optional chaining: undefined on null/undefined, and on a
\* primitive that has no such property)
GetProp(v, key) ==
    IF v.t = "obj" /\ \E i \in 1..Len(v.ps) : v.ps[i][1] = key
    THEN v.ps[CHOOSE i \in 1..Len(v.ps) : v.ps[i][1] = key][2]
    ELSE Undefined

\* a property assigned to an Error instance, undefined when there is none
ErrProp(e, key) ==
    IF \E i \in 1..Len(e.ps) : e.ps[i][1] = key
    THEN e.ps[CHOOSE i \in 1..Len(e.ps) : e.ps[i][1] = key][2]
    ELSE Undefined

\* ToString, as applied by a template literal and by `new Error(v)`
JsToString(v) ==
    CASE v.t = "undefined" -> "undefined"
      [] v.t = "null"      -> "null"
      [] v.t = "bool"      -> IF v.b THEN "true" ELSE "false"
      [] v.t = "num"       -> ToString(v.n)
      [] v.t = "str"       -> v.s
      [] OTHER             -> "[object Object]"

\* JSON.stringify on a JSON value (a property whose value is undefined is
\* left out of an object); the result is the JSON text
RECURSIVE JsonProps(_, _)
RECURSIVE JsonStringify(_)
JsonStringify(v) ==
    CASE v.t = "null" -> "null"
      [] v.t = "bool" -> IF v.b THEN "true" ELSE "false"
      [] v.t = "num"  -> ToString(v.n)
      [] v.t = "str"  -> "\"" \o v.s \o "\""
      [] v.t = "obj"  -> "{" \o JsonProps(v.ps, TRUE) \o "}"

JsonProps(ps, first) ==
    IF ps = <<>> THEN ""
    ELSE IF ps[1][2].t = "undefined" THEN JsonProps(Tail(ps), first)
    ELSE (IF first THEN "" ELSE ",")
         \o "\"" \o ps[1][1] \o "\":" \o JsonStringify(ps[1][2])
         \o JsonProps(Tail(ps), FALSE)

\* the JSON values the model's wire texts can denote
JsonValues ==
    LET prim == {Null, Bool(FALSE), Bool(TRUE), Num(0), Num(1),
                 Str(""), Str("X"), Str("a")}
    IN  prim \cup {Obj(<<>>)}
             \cup {Obj(<< <<"message", p>> >>) : p \in prim}
             \cup {Obj(<< <<"id", p>> >>) : p \in {Str("u1"), Str("u2")}}

\* JSON.parse / Response.json(): the value a text denotes, or a SyntaxError
JsonTexts == {<<JsonStringify(v), v>> : v \in JsonValues}

JsonParse(text) ==
    IF \E p \in JsonTexts : p[1] = text
    THEN [ok |-> TRUE, value |-> (CHOOSE p \in JsonTexts : p[1] = text)[2]]
    ELSE [ok |-> FALSE,
          value |-> Err("JSON Parse error: Unexpected token", <<>>)]

\* String.prototype.indexOf(sub) !== -1
RECURSIVE IndexOfFrom(_, _, _)
IndexOfFrom(s, sub, i) ==
    IF i + Len(sub) - 1 > Len(s) THEN FALSE
    ELSE IF SubSeq(s, i, i + Len(sub) - 1) = sub THEN TRUE
    ELSE IndexOfFrom(s, sub, i + 1)

Includes(s, sub) == IndexOfFrom(s, sub, 1)

\* {...a, ...b}: object spread, the later object wins on a key collision
Spread(a, b) ==
    [k \in (DOMAIN a) \cup (DOMAIN b) |-> IF k \in DOMAIN b THEN b[k] ELSE a[k]]

NoHeaders == <<>>


(***************************************************************************)
(* apiClient.ts: the token cell                                            *)
(***************************************************************************)
API_BASE_URL == "http://localhost:5000/api"

\* the session tokens of the model: absent, the empty string, two bearer tokens
Tokens == {Null, Str(""), Str("tokA"), Str("tokB")}

\* variant: a falsy argument does not clear the cell
setAuthToken_IgnoresFalsy(tok) ==
    /\ currentAuthToken' = IF Truthy(tok) THEN tok ELSE currentAuthToken
    /\ lastSetArg' = tok

\* export const setAuthToken = (token) => { currentAuthToken = token; }
setAuthToken(tok) ==
    /\ currentAuthToken' = tok
    /\ lastSetArg' = tok

\* export const getAuthToken = () => currentAuthToken
getAuthToken == currentAuthToken

(***************************************************************************)
(* apiClient.ts: the request builder (lines 30-55)                         *)
(***************************************************************************)
\* destructuring with defaults:
\* const { method = "GET", body, headers = {}, authenticated = false } = options
OptMethod(options) ==
    IF "method" \in DOMAIN options THEN options["method"] ELSE "GET"
OptBody(options) ==
    IF "body" \in DOMAIN options THEN options["body"] ELSE Undefined
OptHeaders(options) ==
    IF "headers" \in DOMAIN options THEN options["headers"] ELSE NoHeaders
OptAuthenticated(options) ==
    IF "authenticated" \in DOMAIN options THEN options["authenticated"] ELSE FALSE

\* variant: the token is attached whatever the `authenticated` flag says
RequestHeaders_IgnoresFlag(options) ==
    LET merged == Spread("Content-Type" :> "application/json", OptHeaders(options))
        tok    == getAuthToken
    IN  IF Truthy(tok)
        THEN Spread(merged, "Authorization" :> ("Bearer " \o JsToString(tok)))
        ELSE merged

\* variant: an authenticated request gets the header without the token check
RequestHeaders_NoTokenCheck(options) ==
    LET merged == Spread("Content-Type" :> "application/json", OptHeaders(options))
        tok    == getAuthToken
    IN  IF OptAuthenticated(options)
        THEN Spread(merged, "Authorization" :> ("Bearer " \o JsToString(tok)))
        ELSE merged

\* variant: the caller's headers are overlaid last
RequestHeaders_CallerLast(options) ==
    LET tok  == getAuthToken
        base == IF OptAuthenticated(options) /\ Truthy(tok)
                THEN Spread("Content-Type" :> "application/json",
                            "Authorization" :> ("Bearer " \o JsToString(tok)))
                ELSE "Content-Type" :> "application/json"
    IN  Spread(base, OptHeaders(options))

\* config.headers after lines 32-51
RequestHeaders(options) ==
    LET merged == Spread("Content-Type" :> "application/json", OptHeaders(options))
        tok    == getAuthToken
    IN  IF OptAuthenticated(options) /\ Truthy(tok)
        THEN Spread(merged, "Authorization" :> ("Bearer " \o JsToString(tok)))
        ELSE merged

\* config.body after lines 53-55: unset, or the JSON text
RequestBody(options) ==
    IF Truthy(OptBody(options))
    THEN Str(JsonStringify(OptBody(options)))
    ELSE Undefined

\* the arguments of fetch(`${API_BASE_URL}${endpoint}`, config)
MaterializedRequest(endpoint, options) ==
    [url     |-> API_BASE_URL \o endpoint,
     method  |-> OptMethod(options),
     headers |-> RequestHeaders(options),
     body    |-> RequestBody(options)]

\* one apiClient invocation run up to its `await fetch(...)` (lines 30-58)
apiClientInvoke(caller, endpoint, options) ==
    [caller       |-> caller,
     endpoint     |-> endpoint,
     options      |-> options,
     tokenAtBuild |-> getAuthToken,
     warned       |-> OptAuthenticated(options) /\ ~Truthy(getAuthToken),
     fetches      |-> 1,
     request      |-> MaterializedRequest(endpoint, options)]

(***************************************************************************)
(* apiClient.ts: the response normaliser (lines 58-89)                     *)
(***************************************************************************)
\* Response.ok
ResponseOk(r) == r.status >= 200 /\ r.status <= 299

\* variant: the fallback object ignores the status text
ErrorData_GenericOnly(r) ==
    LET parsed == JsonParse(r.body)
    IN  IF parsed.ok THEN parsed.value
        ELSE Obj(<< <<"message", Str("Network response was not ok")>> >>)

\* lines 61-67: the parsed error body, or the fallback object
ErrorData(r) ==
    LET parsed == JsonParse(r.body)
    IN  IF parsed.ok THEN parsed.value
        ELSE Obj(<< <<"message",
                      IF Truthy(Str(r.statusText)) THEN Str(r.statusText)
                      ELSE Str("Network response was not ok")>> >>)

\* lines 69-72: the error thrown for a non-2xx response
HttpError(r) ==
    LET errorData == ErrorData(r)
        m         == GetProp(errorData, "message")
        text      == IF Truthy(m) THEN JsToString(m)
                     ELSE "HTTP error! status: " \o ToString(r.status)
    IN  Err(text, << <<"status", Num(r.status)>>, <<"data", errorData>> >>)

\* variant: the content type is compared for equality
SuccessOutcome_ExactType(r) ==
    IF r.contentType = Str("application/json")
    THEN LET parsed == JsonParse(r.body)
         IN  IF parsed.ok THEN [kind |-> "resolve", value |-> parsed.value]
             ELSE [kind |-> "reject", value |-> parsed.value]
    ELSE [kind |-> "resolve", value |-> Null]

\* variant: a body that does not decode counts as no content
SuccessOutcome_NullOnBadJson(r) ==
    IF Truthy(r.contentType) /\ Includes(r.contentType.s, "application/json")
    THEN LET parsed == JsonParse(r.body)
         IN  IF parsed.ok THEN [kind |-> "resolve", value |-> parsed.value]
             ELSE [kind |-> "resolve", value |-> Null]
    ELSE [kind |-> "resolve", value |-> Null]

\* lines 76-82: the value of a 2xx response
SuccessOutcome(r) ==
    IF Truthy(r.contentType) /\ Includes(r.contentType.s, "application/json")
    THEN LET parsed == JsonParse(r.body)
         IN  IF parsed.ok THEN [kind |-> "resolve", value |-> parsed.value]
             ELSE [kind |-> "reject", value |-> parsed.value]
    ELSE [kind |-> "resolve", value |-> Null]

\* variant: an HTTP failure met while no token is held is reported as a
\* missing session
Normalize_ReadsTokenCell(r) ==
    IF r.kind = "throw" THEN [kind |-> "reject", value |-> r.error]
    ELSE IF ~ResponseOk(r)
    THEN IF Truthy(getAuthToken)
         THEN [kind |-> "reject", value |-> HttpError(r)]
         ELSE [kind |-> "reject",
               value |-> Err("Not authenticated",
                             << <<"status", Num(r.status)>>,
                                <<"data", ErrorData(r)>> >>)]
    ELSE SuccessOutcome(r)

\* variant: the catch block logs a transport error and returns null
Normalize_SwallowsTransport(r) ==
    IF r.kind = "throw" THEN [kind |-> "resolve", value |-> Null]
    ELSE IF ~ResponseOk(r) THEN [kind |-> "reject", value |-> HttpError(r)]
    ELSE SuccessOutcome(r)

\* variant: the catch block wraps a transport error into the HTTP-failure shape
Normalize_WrapsTransport(r) ==
    IF r.kind = "throw"
    THEN [kind |-> "reject",
          value |-> Err(r.error.message,
                        << <<"status", Num(0)>>, <<"data", Null>> >>)]
    ELSE IF ~ResponseOk(r) THEN [kind |-> "reject", value |-> HttpError(r)]
    ELSE SuccessOutcome(r)

\* what the promise returned by apiClient settles with, given what fetch did
Normalize(r) ==
    IF r.kind = "throw" THEN [kind |-> "reject", value |-> r.error]
    ELSE IF ~ResponseOk(r) THEN [kind |-> "reject", value |-> HttpError(r)]
    ELSE SuccessOutcome(r)

\* variant: a failed request is sent a second time
Settled_Retries(c, r) ==
    [caller   |-> c.caller,
     endpoint |-> c.endpoint,
     fetches  |-> IF r.kind = "throw" \/ ~ResponseOk(r)
                  THEN c.fetches + 1 ELSE c.fetches,
     response |-> r,
     outcome  |-> Normalize(r)]

\* the record of a settled invocation: what fetch delivered and what the
\* promise returned by apiClient settled with
Settled(c, r) ==
    [caller   |-> c.caller,
     endpoint |-> c.endpoint,
     fetches  |-> c.fetches,
     response |-> r,
     outcome  |-> Normalize(r)]

\* who awaits an invocation: a function name and, for a handler that can be
\* open several times, the number of the invocation
Caller(name, id) == [name |-> name, id |-> id]

NoCall == [caller |-> Caller("none", 0)]


(***************************************************************************)
(* Inputs of the model                                                     *)
(***************************************************************************)
Endpoints == {"/health"}

Bodies == {Null, Bool(FALSE), Num(0), Str(""), Str("a"),
           Obj(<< <<"id", Str("u1")>> >>)}

CallerHeaders == {"Authorization" :> "Basic abc",
                  "Content-Type" :> "text/plain"}

\* the options objects a caller may pass: every field present or left out
OptionSets ==
    LET methods == {<<>>, [method |-> "POST"]}
        bodies  == {<<>>} \cup {[body |-> b] : b \in Bodies}
        headers == {<<>>} \cup {[headers |-> h] : h \in CallerHeaders}
        auths   == {<<>>, [authenticated |-> TRUE]}
    IN  {Spread(Spread(m, b), Spread(h, a)) :
            m \in methods, b \in bodies, h \in headers, a \in auths}

Statuses == {199, 200, 204, 299, 300, 404}
StatusTexts == {"", "Not Found"}
ContentTypes == {Null, Str("application/json"),
                 Str("application/json; charset=utf-8"), Str("text/html")}
BodyTexts == {"", "<html>", "null", "{\"message\":\"X\"}", "{\"message\":\"\"}",
              "{\"id\":\"u1\"}"}

\* the errors fetch itself can reject with
TransportErrors == {Err("Network request failed", <<>>), Err("Aborted", <<>>)}

\* what fetch can do: deliver a response, or throw
Responses ==
    [kind : {"response"}, status : Statuses, statusText : StatusTexts,
     contentType : ContentTypes, body : BodyTexts]
    \cup {[kind |-> "throw", error |-> e] : e \in TransportErrors}

\* what fetch can do for the /users/me request of a session validation
ValidationResponses ==
    [kind : {"response"}, status : {200, 204, 404}, statusText : {""},
     contentType : {Null, Str("application/json")},
     body : {"", "{\"id\":\"u1\"}", "{\"message\":\"X\"}"}]
    \cup {[kind |-> "throw", error |-> Err("Network request failed", <<>>)]}

NeverCalled == [t |-> "never"]

OfferIds == {"o1", "o2"}

\* the user objects a login screen may pass to login()
Users == {Obj(<< <<"id", Str("u1")>> >>), Obj(<< <<"id", Str("u2")>> >>)}

\* login(userData, accessToken: string)
AccessTokens == {tok \in Tokens : tok.t = "str"}

FacadeIdle == [pc |-> "idle"]

\* the normaliser has not been run a second time
NotReplayed == [response |-> [kind |-> "none"]]

\* MyExchangeOffersScreen as first rendered (useState initial values, lines
\* 228-230), no handler running
OffersScreenInit ==
    [myOffers |-> Obj(<<>>), isLoading |-> FALSE, error |-> Null,
     loads |-> [k \in 1..2 |-> "idle"],
     del |-> [pc |-> "idle"]]

\* GiveEndorsementScreen not on the navigation stack
EndorseScreenClosed == [pc |-> "closed"]

(***************************************************************************)
(* Initial state: module load, AuthProvider rendered, effect not yet run   *)
(***************************************************************************)
Init ==
    /\ currentAuthToken = Null
    /\ lastSetArg = NeverCalled
    /\ returned = NeverCalled
    /\ calls = {}
    /\ done = NoCall
    /\ user = Null
    /\ token = Null
    /\ isLoading = TRUE
    /\ boot = [pc |-> "mounting"]
    /\ sessions = [i \in 1..MaxSessions |-> [pc |-> "idle"]]
    /\ facade = FacadeIdle
    /\ lastOp = [op |-> "init"]
    /\ replayed = NotReplayed
    /\ offersScreen = OffersScreenInit
    /\ endorseScreen = EndorseScreenClosed

(***************************************************************************)
(* The token cell and a direct apiClient invocation                        *)
(***************************************************************************)
\* variant: the headers of the requests in flight follow the token cell
SetAuthTokenCall_RebuildsInFlight ==
    \E tok \in Tokens :
        /\ setAuthToken(tok)
        /\ lastOp' = [op |-> "setAuthToken"]
        /\ calls' = {[c EXCEPT !.request.headers =
                        IF OptAuthenticated(c.options) /\ Truthy(tok)
                        THEN Spread(c.request.headers,
                                    "Authorization" :> ("Bearer " \o JsToString(tok)))
                        ELSE c.request.headers] : c \in calls}
        /\ UNCHANGED <<returned, done, facade>>
        /\ UNCHANGED <<authVars, uiVars>>

\* some module calls setAuthToken(tok)
SetAuthTokenCall ==
    \E tok \in Tokens :
        /\ setAuthToken(tok)
        /\ lastOp' = [op |-> "setAuthToken"]
        /\ UNCHANGED <<returned, calls, done, facade>>
        /\ UNCHANGED <<authVars, uiVars>>

\* some module calls getAuthToken()
GetAuthTokenCall ==
    /\ returned' = getAuthToken
    /\ lastOp' = [op |-> "getAuthToken"]
    /\ UNCHANGED <<currentAuthToken, lastSetArg, calls, done, facade>>
    /\ UNCHANGED <<authVars, uiVars>>

\* a caller invokes apiClient(endpoint, options): the request is built and
\* handed to fetch; the outcome of the caller's previous invocation is dropped
ApiClientCall ==
    \E endpoint \in Endpoints, options \in OptionSets :
        /\ \A c \in calls : c.caller # Caller("direct", 0)
        /\ calls' = calls \cup {apiClientInvoke(Caller("direct", 0), endpoint, options)}
        /\ done' = NoCall
        /\ UNCHANGED <<currentAuthToken, lastSetArg, returned, facade, lastOp>>
        /\ UNCHANGED <<authVars, uiVars>>

\* fetch settles for a direct invocation and apiClient runs to its end
ApiClientSettle ==
    \E c \in calls, r \in Responses :
        /\ c.caller = Caller("direct", 0)
        /\ calls' = calls \ {c}
        /\ done' = Settled(c, r)
        /\ UNCHANGED <<currentAuthToken, lastSetArg, returned, facade, lastOp>>
        /\ UNCHANGED <<authVars, uiVars>>

\* the same step for one given raw response r
ApiClientSettleWith(r) ==
    \E c \in calls :
        /\ c.caller = Caller("direct", 0)
        /\ calls' = calls \ {c}
        /\ done' = Settled(c, r)
        /\ UNCHANGED <<currentAuthToken, lastSetArg, returned, facade, lastOp>>
        /\ UNCHANGED <<authVars, uiVars>>

\* the raw response of the invocation that settled last is delivered again
\* and lines 60-89 run on it once more
NormalizeReplay ==
    /\ done # NoCall
    /\ done.caller = Caller("direct", 0)
    /\ replayed' = [response |-> done.response,
                    outcome  |-> Normalize(done.response)]
    /\ UNCHANGED <<currentAuthToken, lastSetArg, returned, calls, done, facade,
                   lastOp, offersScreen, endorseScreen>>
    /\ UNCHANGED authVars

(***************************************************************************)
(* exchangeService.ts: deleteExchangeOffer                                 *)
(***************************************************************************)
API_BASE_PATH == "/exchange_offers"

\* variant: the core call is made without `authenticated: true`
deleteExchangeOffer_Unauthenticated(offerId) ==
    apiClientInvoke(Caller("deleteExchangeOffer", 0),
                    API_BASE_PATH \o "/" \o offerId,
                    [method |-> "DELETE"])

\* the one core call of deleteExchangeOffer(offerId), lines 78-81
deleteExchangeOffer(offerId) ==
    apiClientInvoke(Caller("deleteExchangeOffer", 0),
                    API_BASE_PATH \o "/" \o offerId,
                    [method |-> "DELETE", authenticated |-> TRUE])

\* a screen calls deleteExchangeOffer(offerId); the facade is suspended on the
\* promise of its core call
DeleteExchangeOfferCall ==
    \E offerId \in OfferIds :
        /\ facade.pc # "awaiting"
        /\ facade' = [pc |-> "awaiting", name |-> "deleteExchangeOffer",
                      offerId |-> offerId, coreCalls |-> 1]
        /\ calls' = calls \cup {deleteExchangeOffer(offerId)}
        /\ done' = NoCall
        /\ UNCHANGED <<currentAuthToken, lastSetArg, returned, lastOp>>
        /\ UNCHANGED <<authVars, uiVars>>

\* the core call settles; `return apiClient(...)` makes the facade's promise
\* settle the same way
DeleteExchangeOfferSettle ==
    \E c \in calls, r \in Responses :
        /\ c.caller = Caller("deleteExchangeOffer", 0)
        /\ calls' = calls \ {c}
        /\ done' = Settled(c, r)
        /\ facade' = [pc |-> "settled", name |-> facade.name,
                      offerId |-> facade.offerId, coreCalls |-> facade.coreCalls,
                      core |-> c, result |-> Normalize(r)]
        /\ UNCHANGED <<currentAuthToken, lastSetArg, returned, lastOp>>
        /\ UNCHANGED <<authVars, uiVars>>

(***************************************************************************)
(* The service facades: challengeService.ts, mindContentService.ts,        *)
(* exchangeService.ts, endorsementService.ts                               *)
(***************************************************************************)
\* the characters String.prototype.trim removes, as far as the model has them
WhiteSpace == {" ", "\t", "\n"}

RECURSIVE TrimStart(_)
TrimStart(s) ==
    IF s # "" /\ SubSeq(s, 1, 1) \in WhiteSpace
    THEN TrimStart(SubSeq(s, 2, Len(s)))
    ELSE s

RECURSIVE TrimEnd(_)
TrimEnd(s) ==
    IF s # "" /\ SubSeq(s, Len(s), Len(s)) \in WhiteSpace
    THEN TrimEnd(SubSeq(s, 1, Len(s) - 1))
    ELSE s

\* variant: only the leading white space is removed
Trim_LeadingOnly(s) == TrimStart(s)

\* s.trim()
Trim(s) == TrimEnd(TrimStart(s))

\* the application/x-www-form-urlencoded byte serializer that
\* URLSearchParams.prototype.toString applies to names and values: a space
\* becomes "+", the reserved characters of the model are percent-encoded,
\* letters, digits and "*-._" are kept
FormEncodeChar(ch) ==
    CASE ch = " "  -> "+"
      [] ch = "+"  -> "%2B"
      [] ch = "&"  -> "%26"
      [] ch = "="  -> "%3D"
      [] ch = "%"  -> "%25"
      [] ch = "/"  -> "%2F"
      [] ch = "?"  -> "%3F"
      [] OTHER     -> ch

RECURSIVE FormUrlEncode(_)
FormUrlEncode(s) ==
    IF s = "" THEN ""
    ELSE FormEncodeChar(SubSeq(s, 1, 1)) \o FormUrlEncode(SubSeq(s, 2, Len(s)))

\* new URLSearchParams(): the list of name/value pairs, in append order
NewURLSearchParams == <<>>

\* queryParams.append(name, value)
URLSearchParamsAppend(qp, name, value) == Append(qp, <<name, value>>)

\* queryParams.toString()
RECURSIVE URLSearchParamsToString(_)
URLSearchParamsToString(qp) ==
    IF qp = <<>> THEN ""
    ELSE LET pair == FormUrlEncode(qp[1][1]) \o "=" \o FormUrlEncode(qp[1][2])
         IN  IF Len(qp) = 1 THEN pair
             ELSE pair \o "&" \o URLSearchParamsToString(Tail(qp))

\* ---- challengeService.ts ----
\* getChallengeTemplates(filters), lines 20-39
getChallengeTemplates(filters) ==
    LET skill == GetProp(filters, "associated_skill_id")
        diff  == GetProp(filters, "difficulty")
        q0 == NewURLSearchParams
        q1 == IF Truthy(skill)
              THEN URLSearchParamsAppend(q0, "associated_skill_id", JsToString(skill))
              ELSE q0
        q2 == IF Truthy(diff)
              THEN URLSearchParamsAppend(q1, "difficulty", JsToString(diff))
              ELSE q1
        base == "/practice_challenges/templates"
        endpoint == IF URLSearchParamsToString(q2) # ""
                    THEN base \o "?" \o URLSearchParamsToString(q2)
                    ELSE base
    IN  apiClientInvoke(Caller("getChallengeTemplates", 0), endpoint,
                        [authenticated |-> TRUE])

\* getChallengeTemplateById(id), lines 44-49
getChallengeTemplateById(id) ==
    apiClientInvoke(Caller("getChallengeTemplateById", 0),
                    "/practice_challenges/templates/" \o JsToString(id),
                    [authenticated |-> TRUE])

\* variant: the submission is sent without its body
submitChallengeCompletion_NoBody(submissionData) ==
    apiClientInvoke(Caller("submitChallengeCompletion", 0),
                    "/practice_challenges/complete",
                    [method |-> "POST", authenticated |-> TRUE])

\* submitChallengeCompletion(submissionData), lines 55-64
submitChallengeCompletion(submissionData) ==
    apiClientInvoke(Caller("submitChallengeCompletion", 0),
                    "/practice_challenges/complete",
                    [method |-> "POST", body |-> submissionData,
                     authenticated |-> TRUE])

\* getMyChallengeCompletions(), lines 69-72
getMyChallengeCompletions ==
    apiClientInvoke(Caller("getMyChallengeCompletions", 0),
                    "/users/me/challenge_completions",
                    [authenticated |-> TRUE])

\* ---- mindContentService.ts (part_004, lines 62-156) ----
\* getMindContentCategories(), lines 80-82
getMindContentCategories ==
    apiClientInvoke(Caller("getMindContentCategories", 0),
                    "/mind_content/categories", [authenticated |-> TRUE])

\* getMindContent(filters), lines 87-106
getMindContent(filters) ==
    LET category == GetProp(filters, "category_id")
        search   == GetProp(filters, "search")
        q0 == NewURLSearchParams
        q1 == IF Truthy(category)
              THEN URLSearchParamsAppend(q0, "category_id", JsToString(category))
              ELSE q0
        q2 == IF Truthy(search) /\ Trim(search.s) # ""
              THEN URLSearchParamsAppend(q1, "search", Trim(search.s))
              ELSE q1
        base == "/mind_content"
        endpoint == IF URLSearchParamsToString(q2) # ""
                    THEN base \o "?" \o URLSearchParamsToString(q2)
                    ELSE base
    IN  apiClientInvoke(Caller("getMindContent", 0), endpoint,
                        [authenticated |-> TRUE])

\* getMindContentById(id), lines 111-113
getMindContentById(id) ==
    apiClientInvoke(Caller("getMindContentById", 0),
                    "/mind_content/" \o JsToString(id),
                    [authenticated |-> TRUE])

\* addMindContent(contentData), lines 118-126
addMindContent(contentData) ==
    apiClientInvoke(Caller("addMindContent", 0), "/mind_content",
                    [method |-> "POST", body |-> contentData,
                     authenticated |-> TRUE])

\* updateMindContent(id, contentData), lines 131-140
updateMindContent(id, contentData) ==
    apiClientInvoke(Caller("updateMindContent", 0),
                    "/mind_content/" \o JsToString(id),
                    [method |-> "PUT", body |-> contentData,
                     authenticated |-> TRUE])

\* deleteMindContent(id), lines 145-155
deleteMindContent(id) ==
    apiClientInvoke(Caller("deleteMindContent", 0),
                    "/mind_content/" \o JsToString(id),
                    [method |-> "DELETE", authenticated |-> TRUE])

\* ---- exchangeService.ts (part_006, lines 1-95) ----
\* createExchangeOffer(payload), lines 16-24
createExchangeOffer(payload) ==
    apiClientInvoke(Caller("createExchangeOffer", 0), API_BASE_PATH,
                    [method |-> "POST", body |-> payload,
                     authenticated |-> TRUE])

\* getExchangeOffers(filters), lines 30-45
getExchangeOffers(filters) ==
    LET offered == GetProp(filters, "offered_skill_id")
        desired == GetProp(filters, "desired_skill_id")
        text    == GetProp(filters, "search_text")
        userId  == GetProp(filters, "user_id")
        active  == GetProp(filters, "is_active")
        q0 == NewURLSearchParams
        q1 == IF Truthy(filters) /\ Truthy(offered)
              THEN URLSearchParamsAppend(q0, "offered_skill_id", JsToString(offered))
              ELSE q0
        q2 == IF Truthy(filters) /\ Truthy(desired)
              THEN URLSearchParamsAppend(q1, "desired_skill_id", JsToString(desired))
              ELSE q1
        q3 == IF Truthy(filters) /\ Truthy(text)
              THEN URLSearchParamsAppend(q2, "search_text", JsToString(text))
              ELSE q2
        q4 == IF Truthy(filters) /\ Truthy(userId)
              THEN URLSearchParamsAppend(q3, "user_id", JsToString(userId))
              ELSE q3
        q5 == IF Truthy(filters) /\ active.t = "bool"
              THEN URLSearchParamsAppend(q4, "is_active", JsToString(active))
              ELSE q4
        endpoint == API_BASE_PATH
                    \o (IF URLSearchParamsToString(q5) # ""
                        THEN "?" \o URLSearchParamsToString(q5)
                        ELSE "")
    IN  apiClientInvoke(Caller("getExchangeOffers", 0), endpoint,
                        [method |-> "GET"])

\* getExchangeOfferById(offerId), lines 50-54
getExchangeOfferById(offerId) ==
    apiClientInvoke(Caller("getExchangeOfferById", 0),
                    API_BASE_PATH \o "/" \o JsToString(offerId),
                    [method |-> "GET"])

\* updateExchangeOffer(offerId, payload), lines 60-69
updateExchangeOffer(offerId, payload) ==
    apiClientInvoke(Caller("updateExchangeOffer", 0),
                    API_BASE_PATH \o "/" \o JsToString(offerId),
                    [method |-> "PATCH", body |-> payload,
                     authenticated |-> TRUE])

\* getMyExchangeOffers(), lines 88-95
getMyExchangeOffers ==
    apiClientInvoke(Caller("getMyExchangeOffers", 0),
                    "/users/me/exchange_offers",
                    [method |-> "GET", authenticated |-> TRUE])

\* ---- endorsementService.ts (part_006, lines 97-147) ----
\* giveEndorsement(payload), lines 107-115
giveEndorsement(payload) ==
    apiClientInvoke(Caller("giveEndorsement", 0), "/endorsements",
                    [method |-> "POST", body |-> payload,
                     authenticated |-> TRUE])

\* getReceivedEndorsements(userId), lines 123-130
getReceivedEndorsements(userId) ==
    apiClientInvoke(Caller("getReceivedEndorsements", 0),
                    "/users/" \o JsToString(userId) \o "/endorsements_received",
                    [method |-> "GET", authenticated |-> TRUE])

\* getGivenEndorsements(userId), lines 138-147
getGivenEndorsements(userId) ==
    apiClientInvoke(Caller("getGivenEndorsements", 0),
                    "/users/" \o JsToString(userId) \o "/endorsements_given",
                    [method |-> "GET", authenticated |-> TRUE])

\* ---- the inputs of the facades ----
\* every way to write down some of the properties of `props` (a sequence of
\* <<key, set of values>>), each property present with one of its values or
\* left out, the keys kept in the given order
RECURSIVE PropLists(_)
PropLists(props) ==
    IF props = <<>> THEN {<<>>}
    ELSE LET rest == PropLists(Tail(props))
         IN  rest \cup {<< <<props[1][1], v>> >> \o r :
                            v \in props[1][2], r \in rest}

\* the same properties written in the opposite order
Reversed(ps) == [i \in 1..Len(ps) |-> ps[Len(ps) + 1 - i]]

SkillIds == {Num(0), Num(10), Num(20)}
Difficulties == {Str(""), Str("medium"), Str("hard")}

\* GetChallengeTemplatesFilters values, and no argument at all
ChallengeFilters ==
    LET lists == PropLists(<< <<"associated_skill_id", SkillIds>>,
                              <<"difficulty", Difficulties>> >>)
    IN  {Undefined} \cup {Obj(ps) : ps \in lists}
                    \cup {Obj(Reversed(ps)) : ps \in lists}

\* GetMindContentFilters values, and no argument at all
MindContentFilters ==
    {Undefined}
    \cup {Obj(ps) : ps \in PropLists(
            << <<"category_id", {Num(0), Num(1)}>>,
               <<"search", {Str(""), Str("  "), Str("guide"),
                            Str("  spaced out search  ")}>> >>)}

\* ExchangeOfferFilters values, and no argument at all
ExchangeFilters ==
    {Undefined,
     Obj(<< <<"search_text", Str("  ")>>, <<"is_active", Bool(FALSE)>>,
            <<"offered_skill_id", Undefined>> >>)}
    \cup {Obj(ps) : ps \in PropLists(
            << <<"offered_skill_id", {Undefined, Str("skillA")}>>,
               <<"desired_skill_id", {Str("skillB")}>>,
               <<"search_text", {Str(""), Str("  "), Str("help")}>>,
               <<"user_id", {Str("u1")}>>,
               <<"is_active", {Bool(FALSE), Bool(TRUE)}>> >>)}

\* the payloads of the mutating facades
Payloads == {Obj(<< <<"id", Str("u1")>> >>),
             Obj(<< <<"message", Str("X")>> >>)}

\* numeric ids (challenge templates, mind content) and user ids
NumericIds == {Num(1), Num(2)}
UserIds == {Str("u1"), Str("u2")}

\* what fetch can do for the core call of a facade
ServiceResponses ==
    {[kind |-> "response", status |-> 200, statusText |-> "",
      contentType |-> Str("application/json"), body |-> "{\"id\":\"u1\"}"],
     [kind |-> "response", status |-> 200, statusText |-> "",
      contentType |-> Str("application/json"), body |-> ""],
     [kind |-> "response", status |-> 204, statusText |-> "",
      contentType |-> Null, body |-> ""],
     [kind |-> "response", status |-> 404, statusText |-> "Not Found",
      contentType |-> Str("application/json"), body |-> "{\"message\":\"X\"}"],
     [kind |-> "response", status |-> 404, statusText |-> "Not Found",
      contentType |-> Str("text/html"), body |-> "<html>"]}
    \cup {[kind |-> "throw", error |-> e] : e \in TransportErrors}

\* the facades that ServiceInvoke/ServiceSettle run
ServiceNames ==
    {"getChallengeTemplates", "getChallengeTemplateById",
     "submitChallengeCompletion", "getMyChallengeCompletions",
     "getMindContentCategories", "getMindContent", "getMindContentById",
     "addMindContent", "updateMindContent", "deleteMindContent",
     "createExchangeOffer", "getExchangeOffers", "getExchangeOfferById",
     "updateExchangeOffer", "getMyExchangeOffers",
     "giveEndorsement", "getReceivedEndorsements", "getGivenEndorsements"}

\* a facade invocation: the facade, its id argument and its object argument
\* (undefined where the facade has none)
Invocation(name, id, arg) == [name |-> name, id |-> id, arg |-> arg]

ServiceInvocations ==
    {Invocation("getChallengeTemplates", Undefined, f) : f \in ChallengeFilters}
    \cup {Invocation("getChallengeTemplateById", i, Undefined) : i \in NumericIds}
    \cup {Invocation("submitChallengeCompletion", Undefined, p) : p \in Payloads}
    \cup {Invocation("getMyChallengeCompletions", Undefined, Undefined)}
    \cup {Invocation("getMindContentCategories", Undefined, Undefined)}
    \cup {Invocation("getMindContent", Undefined, f) : f \in MindContentFilters}
    \cup {Invocation("getMindContentById", i, Undefined) : i \in NumericIds}
    \cup {Invocation("addMindContent", Undefined, p) : p \in Payloads}
    \cup {Invocation("updateMindContent", i, p) : i \in NumericIds, p \in Payloads}
    \cup {Invocation("deleteMindContent", i, Undefined) : i \in NumericIds}
    \cup {Invocation("createExchangeOffer", Undefined, p) : p \in Payloads}
    \cup {Invocation("getExchangeOffers", Undefined, f) : f \in ExchangeFilters}
    \cup {Invocation("getExchangeOfferById", Str(o), Undefined) : o \in OfferIds}
    \cup {Invocation("updateExchangeOffer", Str(o), p) : o \in OfferIds, p \in Payloads}
    \cup {Invocation("getMyExchangeOffers", Undefined, Undefined)}
    \cup {Invocation("giveEndorsement", Undefined, p) : p \in Payloads}
    \cup {Invocation("getReceivedEndorsements", u, Undefined) : u \in UserIds}
    \cup {Invocation("getGivenEndorsements", u, Undefined) : u \in UserIds}

\* the core call the invoked facade makes
FacadeCoreCall(inv) ==
    CASE inv.name = "getChallengeTemplates"     -> getChallengeTemplates(inv.arg)
      [] inv.name = "getChallengeTemplateById"  -> getChallengeTemplateById(inv.id)
      [] inv.name = "submitChallengeCompletion" -> submitChallengeCompletion(inv.arg)
      [] inv.name = "getMyChallengeCompletions" -> getMyChallengeCompletions
      [] inv.name = "getMindContentCategories"  -> getMindContentCategories
      [] inv.name = "getMindContent"            -> getMindContent(inv.arg)
      [] inv.name = "getMindContentById"        -> getMindContentById(inv.id)
      [] inv.name = "addMindContent"            -> addMindContent(inv.arg)
      [] inv.name = "updateMindContent"         -> updateMindContent(inv.id, inv.arg)
      [] inv.name = "deleteMindContent"         -> deleteMindContent(inv.id)
      [] inv.name = "createExchangeOffer"       -> createExchangeOffer(inv.arg)
      [] inv.name = "getExchangeOffers"         -> getExchangeOffers(inv.arg)
      [] inv.name = "getExchangeOfferById"      -> getExchangeOfferById(inv.id)
      [] inv.name = "updateExchangeOffer"       -> updateExchangeOffer(inv.id, inv.arg)
      [] inv.name = "getMyExchangeOffers"       -> getMyExchangeOffers
      [] inv.name = "giveEndorsement"           -> giveEndorsement(inv.arg)
      [] inv.name = "getReceivedEndorsements"   -> getReceivedEndorsements(inv.id)
      [] inv.name = "getGivenEndorsements"      -> getGivenEndorsements(inv.id)

\* variant: the facade catches a rejection of the core and returns null
FacadeResult_CatchesErrors(name, outcome) ==
    IF outcome.kind = "reject" THEN [kind |-> "resolve", value |-> Null]
    ELSE IF name = "deleteMindContent"
    THEN [kind |-> "resolve", value |-> Undefined]
    ELSE outcome

\* how the facade's promise settles once its core call has settled:
\* `return apiClient(...)` adopts the core's outcome; deleteMindContent awaits
\* the core call and returns nothing, so a rejection still passes through
FacadeResult(name, outcome) ==
    IF name = "deleteMindContent" /\ outcome.kind = "resolve"
    THEN [kind |-> "resolve", value |-> Undefined]
    ELSE outcome

\* a screen calls a facade; the facade builds its endpoint, makes its core
\* call and is suspended on the promise
ServiceInvoke ==
    \E inv \in ServiceInvocations :
        /\ facade.pc = "idle"
        /\ facade' = [pc |-> "awaiting", name |-> inv.name, id |-> inv.id,
                      arg |-> inv.arg, coreCalls |-> 1]
        /\ calls' = calls \cup {FacadeCoreCall(inv)}
        /\ done' = NoCall
        /\ UNCHANGED <<currentAuthToken, lastSetArg, returned, lastOp>>
        /\ UNCHANGED <<authVars, uiVars>>

\* the core call settles and the facade's promise with it
ServiceSettle ==
    \E c \in calls, r \in ServiceResponses :
        /\ facade.pc = "awaiting"
        /\ facade.name \in ServiceNames
        /\ c.caller = Caller(facade.name, 0)
        /\ calls' = calls \ {c}
        /\ done' = Settled(c, r)
        /\ facade' = [pc |-> "settled", name |-> facade.name, id |-> facade.id,
                      arg |-> facade.arg, coreCalls |-> facade.coreCalls,
                      core |-> c,
                      result |-> FacadeResult(facade.name, Normalize(r))]
        /\ UNCHANGED <<currentAuthToken, lastSetArg, returned, lastOp>>
        /\ UNCHANGED <<authVars, uiVars>>

\* the screen that awaited the facade takes the outcome; the facade keeps
\* no state of its own between invocations
ServiceReturn ==
    /\ facade.pc = "settled"
    /\ facade' = FacadeIdle
    /\ done' = NoCall
    /\ UNCHANGED <<currentAuthToken, lastSetArg, returned, calls, lastOp>>
    /\ UNCHANGED <<authVars, uiVars>>

(***************************************************************************)
(* MyExchangeOffersScreen (GiveEndorsementScreen.tsx, lines 216-300)       *)
(***************************************************************************)
\* the loadMyOffers invocations of the model: 1 is the one started by the
\* focus effect, 2 the one started by handleDeleteOffer
FocusLoad == 1
ReloadAfterDelete == 2

\* err.data?.message || err.message || fallback  (lines 269-270; line 238
\* without the first operand)
ErrorText(err, withData, fallback) ==
    LET dm == GetProp(ErrProp(err, "data"), "message")
    IN  IF withData /\ Truthy(dm) THEN dm
        ELSE IF err.message # "" THEN Str(err.message)
        ELSE Str(fallback)

\* loadMyOffers up to its `await getMyExchangeOffers()` (lines 232-236)
loadMyOffers(k) ==
    /\ calls' = calls \cup
         {[getMyExchangeOffers EXCEPT !.caller = Caller("loadMyOffers", k)]}
    /\ offersScreen' = [offersScreen EXCEPT
                          !.isLoading = TRUE,
                          !.error = Null,
                          !.loads[k] = "awaiting"]

\* the screen gains focus: useFocusEffect calls loadMyOffers (lines 245-249)
OffersScreenFocus ==
    /\ offersScreen.loads[FocusLoad] = "idle"
    /\ loadMyOffers(FocusLoad)
    /\ done' = NoCall
    /\ UNCHANGED <<currentAuthToken, lastSetArg, returned, facade, lastOp,
                   replayed, endorseScreen>>
    /\ UNCHANGED authVars

\* the request of loadMyOffers invocation k settles with r (lines 236-242)
LoadMyOffersSettle(k, r) ==
    \E c \in calls :
        /\ offersScreen.loads[k] = "awaiting"
        /\ c.caller = Caller("loadMyOffers", k)
        /\ calls' = calls \ {c}
        /\ done' = Settled(c, r)
        /\ LET fetchedOffers == Normalize(r)
           IN  offersScreen' =
                 IF fetchedOffers.kind = "resolve"
                 THEN [offersScreen EXCEPT
                         !.myOffers = fetchedOffers.value,
                         !.isLoading = FALSE,
                         !.loads[k] = "idle"]
                 ELSE [offersScreen EXCEPT
                         !.error = ErrorText(fetchedOffers.value, FALSE,
                                      "Failed to load your exchange offers."),
                         !.isLoading = FALSE,
                         !.loads[k] = "idle"]
        /\ UNCHANGED <<currentAuthToken, lastSetArg, returned, facade, lastOp,
                       replayed, endorseScreen>>
        /\ UNCHANGED authVars

\* the user confirms the deletion: onPress up to its
\* `await deleteExchangeOffer(offerId)` (lines 264-266); one deletion at a
\* time, and none while the reload of the previous one is under way
HandleDeleteOffer ==
    \E offerId \in OfferIds :
        /\ offersScreen.del.pc = "idle"
        /\ offersScreen.loads[ReloadAfterDelete] = "idle"
        /\ calls' = calls \cup {deleteExchangeOffer(offerId)}
        /\ offersScreen' = [offersScreen EXCEPT
                              !.isLoading = TRUE,
                              !.del = [pc |-> "awaiting", offerId |-> offerId]]
        /\ done' = NoCall
        /\ UNCHANGED <<currentAuthToken, lastSetArg, returned, facade, lastOp,
                       replayed, endorseScreen>>
        /\ UNCHANGED authVars

\* variant: the list is reloaded whether or not the deletion succeeded
HandleDeleteOfferSettle_AlwaysReloads(r) ==
    \E c \in calls :
        /\ offersScreen.del.pc = "awaiting"
        /\ c.caller = Caller("deleteExchangeOffer", 0)
        /\ done' = Settled(c, r)
        /\ calls' = (calls \ {c}) \cup
             {[getMyExchangeOffers EXCEPT
                 !.caller = Caller("loadMyOffers", ReloadAfterDelete)]}
        /\ offersScreen' = [offersScreen EXCEPT
                              !.isLoading = TRUE,
                              !.error = Null,
                              !.loads[ReloadAfterDelete] = "awaiting",
                              !.del = [pc |-> "idle",
                                       offerId |-> offersScreen.del.offerId]]
        /\ UNCHANGED <<currentAuthToken, lastSetArg, returned, facade, lastOp,
                       replayed, endorseScreen>>
        /\ UNCHANGED authVars

\* the delete request settles with r: the rest of onPress (lines 266-273),
\* with the first part of the loadMyOffers() it calls on success
HandleDeleteOfferSettle(r) ==
    \E c \in calls :
        /\ offersScreen.del.pc = "awaiting"
        /\ c.caller = Caller("deleteExchangeOffer", 0)
        /\ done' = Settled(c, r)
        /\ LET deleted == Normalize(r)
               idle    == [pc |-> "idle", offerId |-> offersScreen.del.offerId]
           IN  IF deleted.kind = "resolve"
               THEN /\ calls' = (calls \ {c}) \cup
                         {[getMyExchangeOffers EXCEPT
                             !.caller = Caller("loadMyOffers", ReloadAfterDelete)]}
                    /\ offersScreen' = [offersScreen EXCEPT
                                          !.isLoading = TRUE,
                                          !.error = Null,
                                          !.loads[ReloadAfterDelete] = "awaiting",
                                          !.del = idle]
               ELSE /\ calls' = calls \ {c}
                    /\ offersScreen' = [offersScreen EXCEPT
                                          !.error = ErrorText(deleted.value, TRUE,
                                                       "Failed to delete offer."),
                                          !.isLoading = FALSE,
                                          !.del = idle]
        /\ UNCHANGED <<currentAuthToken, lastSetArg, returned, facade, lastOp,
                       replayed, endorseScreen>>
        /\ UNCHANGED authVars

(***************************************************************************)
(* GiveEndorsementScreen (GiveEndorsementScreen.tsx, lines 13-162)         *)
(***************************************************************************)
\* route.params.endorseeId
EndorseeIds == {"u1", "u2"}

\* enum EndorsementType (endorsementTypes.ts, lines 4-8)
EndorsementTypes == {"general", "skill_related", "favor_feedback"}

\* the values of the skill picker: nothing selected, or a skill
SkillChoices == {"", "skill_1"}

\* texts of the comment field
Comments == {"", "  well done  "}

\* currentUser && endorseeId === currentUser.id
EndorsesSelf(endorseeId) ==
    Truthy(user) /\ GetProp(user, "id") = Str(endorseeId)

\* the payload built at lines 63-71
EndorsementPayload(scr) ==
    LET comment == IF Trim(scr.comment) # "" THEN Str(Trim(scr.comment)) ELSE Null
        base == << <<"endorsee_id", Str(scr.endorseeId)>>,
                   <<"endorsement_type", Str(scr.endorsementType)>>,
                   <<"comment", comment>> >>
    IN  IF scr.endorsementType = "skill_related"
        THEN Obj(Append(base, <<"skill_id", Str(scr.skillId)>>))
        ELSE Obj(base)

\* the screen is navigated to with an endorsee (lines 16-24); its effect
\* (lines 26-34) leaves it again at once when the endorsee is the current
\* user and there is a screen to go back to
OpenGiveEndorsementScreen ==
    \E endorseeId \in EndorseeIds, canGoBack \in BOOLEAN :
        /\ endorseScreen.pc = "closed"
        /\ endorseScreen' =
             [pc |-> IF EndorsesSelf(endorseeId) /\ canGoBack
                     THEN "closed" ELSE "idle",
              endorseeId |-> endorseeId,
              endorsementType |-> "general",
              skillId |-> "",
              comment |-> "",
              isLoading |-> FALSE,
              error |-> Null,
              lastSubmit |-> "none"]
        /\ UNCHANGED <<currentAuthToken, lastSetArg, returned, calls, done,
                       facade, lastOp, replayed, offersScreen>>
        /\ UNCHANGED authVars

\* the effect runs again after currentUser has changed (lines 26-34)
SelfEndorsementEffect ==
    /\ endorseScreen.pc = "idle"
    /\ EndorsesSelf(endorseScreen.endorseeId)
    /\ endorseScreen' = [endorseScreen EXCEPT !.pc = "closed"]
    /\ UNCHANGED <<currentAuthToken, lastSetArg, returned, calls, done,
                   facade, lastOp, replayed, offersScreen>>
    /\ UNCHANGED authVars

\* the user edits the form; the inputs are disabled while isLoading
\* (lines 113, 128, 146)
EditEndorsementForm ==
    \E type \in EndorsementTypes, skill \in SkillChoices, comment \in Comments :
        /\ endorseScreen.pc = "idle"
        /\ ~endorseScreen.isLoading
        /\ endorseScreen' = [endorseScreen EXCEPT
                               !.endorsementType = type,
                               !.skillId = skill,
                               !.comment = comment]
        /\ UNCHANGED <<currentAuthToken, lastSetArg, returned, calls, done,
                       facade, lastOp, replayed, offersScreen>>
        /\ UNCHANGED authVars

\* variant: the handler does not compare the endorsee with the current user
HandleSubmitEndorsement_NoSelfCheck ==
    /\ endorseScreen.pc = "idle"
    /\ IF endorseScreen.endorsementType = ""
       THEN /\ endorseScreen' = [endorseScreen EXCEPT
                  !.error = Str("Please select an endorsement type."),
                  !.lastSubmit = "noType"]
            /\ UNCHANGED calls
       ELSE IF endorseScreen.endorsementType = "skill_related"
               /\ endorseScreen.skillId = ""
       THEN /\ endorseScreen' = [endorseScreen EXCEPT
                  !.error = Str("Please select a skill for a skill-related endorsement."),
                  !.lastSubmit = "noSkill"]
            /\ UNCHANGED calls
       ELSE /\ endorseScreen' = [endorseScreen EXCEPT
                  !.pc = "submitting",
                  !.isLoading = TRUE,
                  !.error = Null,
                  !.lastSubmit = "sent"]
            /\ calls' = calls \cup
                 {giveEndorsement(EndorsementPayload(endorseScreen))}
    /\ done' = NoCall
    /\ UNCHANGED <<currentAuthToken, lastSetArg, returned, facade, lastOp,
                   replayed, offersScreen>>
    /\ UNCHANGED authVars

\* handleSubmitEndorsement up to its return or to its
\* `await giveEndorsement(payload)` (lines 43-76); the handler is taken as
\* callable in every state of the form in which no submission is under way
HandleSubmitEndorsement ==
    /\ endorseScreen.pc = "idle"
    /\ IF EndorsesSelf(endorseScreen.endorseeId)
       THEN /\ endorseScreen' = [endorseScreen EXCEPT !.lastSubmit = "self"]
            /\ UNCHANGED calls
       ELSE IF endorseScreen.endorsementType = ""
       THEN /\ endorseScreen' = [endorseScreen EXCEPT
                  !.error = Str("Please select an endorsement type."),
                  !.lastSubmit = "noType"]
            /\ UNCHANGED calls
       ELSE IF endorseScreen.endorsementType = "skill_related"
               /\ endorseScreen.skillId = ""
       THEN /\ endorseScreen' = [endorseScreen EXCEPT
                  !.error = Str("Please select a skill for a skill-related endorsement."),
                  !.lastSubmit = "noSkill"]
            /\ UNCHANGED calls
       ELSE /\ endorseScreen' = [endorseScreen EXCEPT
                  !.pc = "submitting",
                  !.isLoading = TRUE,
                  !.error = Null,
                  !.lastSubmit = "sent"]
            /\ calls' = calls \cup
                 {giveEndorsement(EndorsementPayload(endorseScreen))}
    /\ done' = NoCall
    /\ UNCHANGED <<currentAuthToken, lastSetArg, returned, facade, lastOp,
                   replayed, offersScreen>>
    /\ UNCHANGED authVars

\* the giveEndorsement request settles with r: the rest of the try block, or
\* the catch block, and the finally block (lines 76-88)
SubmitEndorsementSettle(r) ==
    \E c \in calls, canGoBack \in BOOLEAN :
        /\ endorseScreen.pc = "submitting"
        /\ c.caller = Caller("giveEndorsement", 0)
        /\ calls' = calls \ {c}
        /\ done' = Settled(c, r)
        /\ LET given == Normalize(r)
           IN  endorseScreen' =
                 IF given.kind = "resolve"
                 THEN [endorseScreen EXCEPT
                         !.pc = IF canGoBack THEN "closed" ELSE "idle",
                         !.isLoading = FALSE]
                 ELSE [endorseScreen EXCEPT
                         !.pc = "idle",
                         !.error = ErrorText(given.value, TRUE,
                                     "Failed to submit endorsement. Please try again."),
                         !.isLoading = FALSE]
        /\ UNCHANGED <<currentAuthToken, lastSetArg, returned, facade, lastOp,
                       replayed, offersScreen>>
        /\ UNCHANGED authVars

(***************************************************************************)
(* AuthContext.tsx: AuthProvider                                           *)
(***************************************************************************)
\* a token put into the API client before the provider's effect runs
\* ("from previous manual set for testing", line 43), hence before any
\* operation of the provider
PresetAuthToken ==
    /\ boot.pc = "mounting"
    /\ lastOp.op = "init"
    /\ \E tok \in Tokens : setAuthToken(tok)
    /\ lastOp' = [op |-> "setAuthToken"]
    /\ UNCHANGED <<returned, calls, done, facade>>
    /\ UNCHANGED <<authVars, uiVars>>

\* login (lines 70-76)
login(userData, accessToken) ==
    /\ user' = userData
    /\ token' = accessToken
    /\ setAuthToken(accessToken)

Login ==
    \E userData \in Users, accessToken \in AccessTokens :
        /\ login(userData, accessToken)
        /\ lastOp' = [op |-> "login", accessToken |-> accessToken]
        /\ UNCHANGED <<uiVars, returned, calls, done, facade, isLoading, boot, sessions>>

\* variant: the React state is cleared, the API client keeps its token
logout_KeepsApiToken ==
    /\ user' = Null
    /\ token' = Null
    /\ UNCHANGED <<currentAuthToken, lastSetArg>>

\* logout (lines 78-85)
logout ==
    /\ user' = Null
    /\ token' = Null
    /\ setAuthToken(Null)

Logout ==
    /\ logout
    /\ lastOp' = [op |-> "logout"]
    /\ UNCHANGED <<uiVars, returned, calls, done, facade, isLoading, boot, sessions>>

\* variant: the session is validated whether or not a token is stored
BootstrapAuth_AlwaysValidates ==
    /\ boot.pc = "mounting"
    /\ LET storedToken == getAuthToken
       IN  /\ setAuthToken(storedToken)
           /\ calls' = calls \cup
                {apiClientInvoke(Caller("bootstrapAuth", 0), "/users/me",
                                 [authenticated |-> TRUE])}
           /\ boot' = [pc |-> "awaiting", storedToken |-> storedToken]
           /\ isLoading' = TRUE
           /\ lastOp' = [op |-> "bootstrapAuth", validation |-> "started"]
    /\ UNCHANGED <<uiVars, returned, done, facade, user, token, sessions>>

\* the mount effect: bootstrapAuth up to its `await apiClient(...)`, or to its
\* end when the API client holds no token (lines 39-47, 58-64)
BootstrapAuth ==
    /\ boot.pc = "mounting"
    /\ LET storedToken == getAuthToken
       IN  IF Truthy(storedToken)
           THEN /\ setAuthToken(storedToken)
                /\ calls' = calls \cup
                     {apiClientInvoke(Caller("bootstrapAuth", 0), "/users/me",
                                      [authenticated |-> TRUE])}
                /\ boot' = [pc |-> "awaiting", storedToken |-> storedToken]
                /\ isLoading' = TRUE
                /\ lastOp' = [op |-> "bootstrapAuth", validation |-> "started"]
           ELSE /\ boot' = [pc |-> "done"]
                /\ isLoading' = FALSE
                /\ lastOp' = [op |-> "bootstrapAuth", validation |-> "none"]
                /\ UNCHANGED <<currentAuthToken, lastSetArg, calls>>
    /\ UNCHANGED <<uiVars, returned, done, facade, user, token, sessions>>

\* the /users/me request of bootstrapAuth settles with r (lines 50-64)
BootstrapSettle(c, r) ==
    /\ boot.pc = "awaiting"
    /\ c.caller = Caller("bootstrapAuth", 0)
    /\ calls' = calls \ {c}
    /\ LET currentUser == Normalize(r)
       IN  IF currentUser.kind = "resolve"
           THEN /\ user' = currentUser.value
                /\ token' = boot.storedToken
                /\ lastOp' = [op |-> "bootstrapAuth", validation |-> "ok"]
                /\ UNCHANGED <<currentAuthToken, lastSetArg>>
           ELSE /\ setAuthToken(Null)
                /\ lastOp' = [op |-> "bootstrapAuth", validation |-> "failed"]
                /\ UNCHANGED <<user, token>>
    /\ boot' = [pc |-> "done"]
    /\ isLoading' = FALSE
    /\ UNCHANGED <<uiVars, returned, done, facade, sessions>>

\* fetchAndUpdateUserSession, invocation i, up to its first suspension: the
\* `await apiClient(...)` of line 97, or the `await logout()` of line 104
\* when there is no token (lines 88-96, 101-104)
FetchAndUpdateUserSession(i) ==
    /\ sessions[i].pc = "idle"
    /\ isLoading' = TRUE
    /\ LET currentToken == getAuthToken
       IN  IF ~Truthy(currentToken)
           THEN /\ logout
                /\ sessions' = [sessions EXCEPT ![i] = [pc |-> "finally"]]
                /\ lastOp' = [op |-> "fetchAndUpdateUserSession",
                               validation |-> "none"]
                /\ UNCHANGED calls
           ELSE /\ setAuthToken(currentToken)
                /\ calls' = calls \cup
                     {apiClientInvoke(Caller("fetchAndUpdateUserSession", i),
                                      "/users/me", [authenticated |-> TRUE])}
                /\ sessions' = [sessions EXCEPT ![i] =
                                  [pc |-> "awaiting", currentToken |-> currentToken]]
                /\ lastOp' = [op |-> "fetchAndUpdateUserSession",
                               validation |-> "started"]
                /\ UNCHANGED <<user, token>>
    /\ UNCHANGED <<uiVars, returned, done, facade, boot>>

\* the /users/me request of invocation i settles with r: lines 98-99 and the
\* finally block, or the catch block up to `await logout()`
SessionSettle(i, c, r) ==
    /\ sessions[i].pc = "awaiting"
    /\ c.caller = Caller("fetchAndUpdateUserSession", i)
    /\ calls' = calls \ {c}
    /\ LET refreshedUser == Normalize(r)
       IN  IF refreshedUser.kind = "resolve"
           THEN /\ user' = refreshedUser.value
                /\ token' = sessions[i].currentToken
                /\ isLoading' = FALSE
                /\ sessions' = [sessions EXCEPT ![i] = [pc |-> "idle"]]
                /\ lastOp' = [op |-> "fetchAndUpdateUserSession",
                               validation |-> "ok"]
                /\ UNCHANGED <<currentAuthToken, lastSetArg>>
           ELSE /\ logout
                /\ sessions' = [sessions EXCEPT ![i] = [pc |-> "finally"]]
                /\ lastOp' = [op |-> "fetchAndUpdateUserSession",
                               validation |-> "failed"]
                /\ UNCHANGED isLoading
    /\ UNCHANGED <<uiVars, returned, done, facade, boot>>

\* variant: the finally block does not reset isLoading
SessionFinally_KeepsLoading(i) ==
    /\ sessions[i].pc = "finally"
    /\ sessions' = [sessions EXCEPT ![i] = [pc |-> "idle"]]
    /\ lastOp' = [op |-> "fetchAndUpdateUserSession", validation |-> "finished"]
    /\ UNCHANGED <<uiVars, currentAuthToken, lastSetArg, returned, calls, done, facade,
                   user, token, isLoading, boot>>

\* invocation i resumes after `await logout()`: the finally block (line 108)
SessionFinally(i) ==
    /\ sessions[i].pc = "finally"
    /\ isLoading' = FALSE
    /\ sessions' = [sessions EXCEPT ![i] = [pc |-> "idle"]]
    /\ lastOp' = [op |-> "fetchAndUpdateUserSession", validation |-> "finished"]
    /\ UNCHANGED <<uiVars, currentAuthToken, lastSetArg, returned, calls, done, facade,
                   user, token, boot>>

Next ==
    \/ SetAuthTokenCall
    \/ ApiClientCall
    \/ ApiClientSettle

Spec == Init /\ [][Next]_vars

FacadeNext ==
    \/ SetAuthTokenCall
    \/ DeleteExchangeOfferCall
    \/ DeleteExchangeOfferSettle

FacadeSpec == Init /\ [][FacadeNext]_vars

\* apiClient with a response delivered a second time
ReplayNext ==
    \/ SetAuthTokenCall
    \/ ApiClientCall
    \/ \E r \in ServiceResponses : ApiClientSettleWith(r)
    \/ NormalizeReplay

ReplaySpec == Init /\ [][ReplayNext]_vars

\* MyExchangeOffersScreen on top of the exchange service and the API client
OffersScreenNext ==
    \/ SetAuthTokenCall
    \/ OffersScreenFocus
    \/ \E k \in {FocusLoad, ReloadAfterDelete}, r \in ServiceResponses :
          LoadMyOffersSettle(k, r)
    \/ HandleDeleteOffer
    \/ \E r \in ServiceResponses : HandleDeleteOfferSettle(r)

OffersScreenSpec == Init /\ [][OffersScreenNext]_vars

\* GiveEndorsementScreen under an AuthProvider whose user logs in and out
EndorseScreenNext ==
    \/ Login
    \/ Logout
    \/ OpenGiveEndorsementScreen
    \/ SelfEndorsementEffect
    \/ EditEndorsementForm
    \/ HandleSubmitEndorsement
    \/ \E r \in ServiceResponses : SubmitEndorsementSettle(r)

EndorseScreenSpec == Init /\ [][EndorseScreenNext]_vars

\* the screens of the app calling the service facades
ServiceNext ==
    \/ SetAuthTokenCall
    \/ ServiceInvoke
    \/ ServiceSettle
    \/ ServiceReturn
    \/ DeleteExchangeOfferCall
    \/ DeleteExchangeOfferSettle

ServiceSpec == Init /\ [][ServiceNext]_vars


AuthNext ==
    \/ PresetAuthToken
    \/ Login
    \/ Logout
    \/ BootstrapAuth
    \/ \E c \in calls, r \in ValidationResponses : BootstrapSettle(c, r)
    \/ \E i \in 1..MaxSessions : FetchAndUpdateUserSession(i)
    \/ \E i \in 1..MaxSessions, c \in calls, r \in ValidationResponses :
          SessionSettle(i, c, r)
    \/ \E i \in 1..MaxSessions : SessionFinally(i)

AuthSpec == Init /\ [][AuthNext]_vars

\* the same provider; a continuation that follows `await logout()` is run
\* (logout is settled when it returns, so the continuation is always enabled)
AuthLiveSpec ==
    /\ Init
    /\ [][AuthNext]_vars
    /\ \A i \in 1..MaxSessions : WF_vars(SessionFinally(i))

TokenNext ==
    \/ SetAuthTokenCall
    \/ GetAuthTokenCall
    \/ Login
    \/ Logout

TokenSpec == Init /\ [][TokenNext]_vars


(***************************************************************************)
(* Properties                                                              *)
(***************************************************************************)
\* the descriptor of an invocation, read off the options the caller passed
DescAuthenticated(c) ==
    "authenticated" \in DOMAIN c.options /\ c.options["authenticated"] = TRUE
DescBody(c) ==
    IF "body" \in DOMAIN c.options THEN c.options["body"] ELSE Undefined
DescSuppliesHeader(c, name) ==
    "headers" \in DOMAIN c.options /\ name \in DOMAIN c.options["headers"]
HasHeader(c, name) == name \in DOMAIN c.request.headers

DirectDone == done.caller = Caller("direct", 0) /\ done.response.kind = "response"
Is2xx(status) == status \in 200..299

\* the wire texts of the model and the values they denote
Decoded ==
    "null" :> Null
    @@ "{\"message\":\"X\"}" :> Obj(<< <<"message", Str("X")>> >>)
    @@ "{\"message\":\"\"}" :> Obj(<< <<"message", Str("")>> >>)
    @@ "{\"id\":\"u1\"}" :> Obj(<< <<"id", Str("u1")>> >>)
UnparsableTexts == {"", "<html>"}
JsonContentTypes == {Str("application/json"), Str("application/json; charset=utf-8")}

\* C1 (as stated): an authenticated request built while the token cell holds
\* the string t, any string, carries Authorization: "Bearer " + t.
C1_BearerForEveryStringToken ==
    \A c \in calls :
        (DescAuthenticated(c) /\ c.tokenAtBuild.t = "str")
        => /\ HasHeader(c, "Authorization")
           /\ c.request.headers["Authorization"] = "Bearer " \o c.tokenAtBuild.s

\* C2 (as stated): a request with authenticated=false never has an
\* Authorization header, whatever extra headers the caller supplied.
C2_NoAuthorizationWhenUnauthenticated ==
    \A c \in calls : ~DescAuthenticated(c) => ~HasHeader(c, "Authorization")

\* C2 (amended): a request with authenticated=false gets no Authorization
\* header from apiClient, whatever the token cell holds: the header is present
\* only if the caller supplied it, and then with the caller's value.
C2_NoAuthorizationAddedWhenUnauthenticated ==
    \A c \in calls :
        ~DescAuthenticated(c)
        => /\ HasHeader(c, "Authorization") <=> DescSuppliesHeader(c, "Authorization")
           /\ HasHeader(c, "Authorization")
              => c.request.headers["Authorization"]
                   = c.options["headers"]["Authorization"]

C2_Witness ==
    \E c \in calls :
        /\ ~DescAuthenticated(c)
        /\ c.tokenAtBuild = Str("tokA")
        /\ ~HasHeader(c, "Authorization")

\* C3 (as stated): an authenticated request built while the token is absent is
\* still dispatched, by one fetch, and has no Authorization header.
C3_DispatchedWithoutAuthorization ==
    \A c \in calls :
        (DescAuthenticated(c) /\ c.tokenAtBuild = Null)
        => c.fetches = 1 /\ ~HasHeader(c, "Authorization")

\* C3 (amended): an authenticated request built while the token is absent is
\* still dispatched, by one fetch, and apiClient adds no Authorization header
\* to it: the header is present only if the caller supplied it, unchanged.
C3_DispatchedWithoutAddedAuthorization ==
    \A c \in calls :
        (DescAuthenticated(c) /\ c.tokenAtBuild = Null)
        => /\ c.fetches = 1
           /\ HasHeader(c, "Authorization") <=> DescSuppliesHeader(c, "Authorization")
           /\ HasHeader(c, "Authorization")
              => c.request.headers["Authorization"]
                   = c.options["headers"]["Authorization"]

C3_Witness ==
    \E c \in calls :
        /\ DescAuthenticated(c)
        /\ c.tokenAtBuild = Null
        /\ c.warned
        /\ c.fetches = 1
        /\ ~HasHeader(c, "Authorization")

\* C4 (as stated): a defined body, false, 0, "" and null included, is sent as
\* its JSON text; without a body the request has none.
C4_DefinedBodyIsSerialized ==
    \A c \in calls :
        IF DescBody(c) # Undefined
        THEN c.request.body = Str(JsonStringify(DescBody(c)))
        ELSE c.request.body = Undefined

\* C6 (as stated): a non-2xx response with body {"message": X}, X any string,
\* is rejected with the HTTP status, the message X and the parsed body as data.
C6_MessageFromErrorBody ==
    (DirectDone /\ ~Is2xx(done.response.status))
    => \A X \in {"", "X"} :
         done.response.body = "{\"message\":\"" \o X \o "\"}"
         => /\ done.outcome.kind = "reject"
            /\ done.outcome.value.t = "error"
            /\ done.outcome.value.message = X
            /\ ErrProp(done.outcome.value, "status") = Num(done.response.status)
            /\ ErrProp(done.outcome.value, "data") = Obj(<< <<"message", Str(X)>> >>)

\* C7: a non-2xx response whose body is empty or not JSON is rejected with a
\* structured error carrying the HTTP status; its message is the status text,
\* or "Network response was not ok" when the status text is empty.
C7_FallbackForUnparsableErrorBody ==
    (DirectDone /\ ~Is2xx(done.response.status)
                /\ done.response.body \in UnparsableTexts)
    => /\ done.outcome.kind = "reject"
       /\ done.outcome.value.t = "error"
       /\ ErrProp(done.outcome.value, "status") = Num(done.response.status)
       /\ done.outcome.value.message =
            IF done.response.statusText = "" THEN "Network response was not ok"
            ELSE done.response.statusText

C7_Witness ==
    /\ DirectDone
    /\ done.response.status = 404
    /\ done.response.body = "<html>"
    /\ done.response.statusText = "Not Found"
    /\ done.outcome.kind = "reject"
    /\ done.outcome.value.message = "Not Found"

\* C8 (as stated): a 2xx response resolves with the decoded payload when its
\* content type indicates JSON, and with null otherwise.
C8_SuccessResolves ==
    (DirectDone /\ Is2xx(done.response.status))
    => /\ done.outcome.kind = "resolve"
       /\ IF done.response.contentType \in JsonContentTypes
          THEN /\ done.response.body \in DOMAIN Decoded
               /\ done.outcome.value = Decoded[done.response.body]
          ELSE done.outcome.value = Null

\* C8 (amended): a 2xx response whose content type contains application/json
\* resolves with the decoded payload when its body is valid JSON and rejects
\* with the decode error, which has no status and no data, when it is not;
\* every other 2xx response resolves with null.
C8_SuccessResolvesWhenDecodable ==
    (DirectDone /\ Is2xx(done.response.status))
    => IF done.response.contentType \in JsonContentTypes
       THEN IF done.response.body \in DOMAIN Decoded
            THEN /\ done.outcome.kind = "resolve"
                 /\ done.outcome.value = Decoded[done.response.body]
            ELSE /\ done.outcome.kind = "reject"
                 /\ done.outcome.value.t = "error"
                 /\ ErrProp(done.outcome.value, "status") = Undefined
                 /\ ErrProp(done.outcome.value, "data") = Undefined
       ELSE /\ done.outcome.kind = "resolve"
            /\ done.outcome.value = Null

C8_Witness ==
    /\ DirectDone
    /\ done.response.status = 200
    /\ done.response.contentType = Str("application/json; charset=utf-8")
    /\ done.outcome = [kind |-> "resolve", value |-> Obj(<< <<"id", Str("u1")>> >>)]


\* C5: getAuthToken returns the argument of the latest setAuthToken call, null
\* when there was none, and leaves the token cell as it was.
C5_GetReturnsLatestSet ==
    [][GetAuthTokenCall
       => /\ returned' = IF lastSetArg = NeverCalled THEN Null ELSE lastSetArg
          /\ currentAuthToken' = currentAuthToken]_vars

C5_Witness ==
    /\ lastOp.op = "getAuthToken"
    /\ lastSetArg = Str("tokA")
    /\ returned = Str("tokA")

\* the core call deleteExchangeOffer(id) has to make
IsDeleteCall(c, offerId) ==
    /\ c.endpoint = "/exchange_offers/" \o offerId
    /\ c.request.url = "http://localhost:5000/api/exchange_offers/" \o offerId
    /\ c.request.method = "DELETE"
    /\ DescAuthenticated(c)
    /\ DescBody(c) = Undefined
    /\ c.request.body = Undefined
    /\ c.fetches = 1

DeleteCallsInFlight == {c \in calls : c.caller.name = "deleteExchangeOffer"}

DeleteIssuesOneCall ==
    /\ facade.pc = "awaiting"
       => /\ facade.coreCalls = 1
          /\ Cardinality(DeleteCallsInFlight) = 1
          /\ \A c \in DeleteCallsInFlight : IsDeleteCall(c, facade.offerId)
    /\ facade.pc = "settled"
       => /\ facade.coreCalls = 1
          /\ DeleteCallsInFlight = {}
          /\ IsDeleteCall(facade.core, facade.offerId)

DeleteGot2xx ==
    /\ facade.pc = "settled"
    /\ done.response.kind = "response"
    /\ Is2xx(done.response.status)

\* C9 (as stated): deleteExchangeOffer(id) makes exactly one core call, DELETE
\* /exchange_offers/{id}, authenticated, without a body, and resolves to null
\* for every 2xx response.
C9_DeleteResolvesNullOnEvery2xx ==
    /\ DeleteIssuesOneCall
    /\ DeleteGot2xx => facade.result = [kind |-> "resolve", value |-> Null]

\* C9 (amended): deleteExchangeOffer(id) makes exactly one core call, DELETE
\* /exchange_offers/{id}, authenticated, without a body; it resolves to null
\* for every 2xx response whose content type does not contain application/json;
\* for a 2xx response declared as JSON it resolves with the decoded payload,
\* or rejects when the body is not valid JSON.
C9_DeleteResolvesNullOnNonJson2xx ==
    /\ DeleteIssuesOneCall
    /\ DeleteGot2xx
       => IF done.response.contentType \in JsonContentTypes
          THEN IF done.response.body \in DOMAIN Decoded
               THEN facade.result = [kind |-> "resolve",
                                     value |-> Decoded[done.response.body]]
               ELSE facade.result.kind = "reject"
          ELSE facade.result = [kind |-> "resolve", value |-> Null]

C9_Witness ==
    /\ facade.pc = "settled"
    /\ facade.offerId = "o1"
    /\ done.response.kind = "response"
    /\ done.response.status = 204
    /\ done.response.contentType = Null
    /\ done.response.body = ""
    /\ facade.result = [kind |-> "resolve", value |-> Null]

\* C10: the API client's token is absent at process start, equals t right
\* after login(user, t), and is absent right after logout and right after the
\* /users/me request of the bootstrap or of fetchAndUpdateUserSession failed.
C10_TokenLifecycle ==
    /\ lastOp.op = "init" => currentAuthToken = Null
    /\ lastOp.op = "login" => currentAuthToken = lastOp.accessToken
    /\ lastOp.op = "logout" => currentAuthToken = Null
    /\ (lastOp.op \in {"bootstrapAuth", "fetchAndUpdateUserSession"}
        /\ lastOp.validation = "failed") => currentAuthToken = Null

C10_Witness ==
    /\ lastOp = [op |-> "fetchAndUpdateUserSession", validation |-> "failed"]
    /\ lastSetArg = Null
    /\ currentAuthToken = Null
    /\ boot.pc = "done"


\* C11: a setAuthToken that runs while an authenticated request is in flight
\* leaves that request as it was built: it carries the bearer token that was
\* current when apiClient built it (no header of its own when there was none),
\* and only an invocation built afterwards reads the new value.
C11_HeaderFixedAtBuildTime ==
    /\ [](\A c \in calls :
            DescAuthenticated(c)
            => /\ c.tokenAtBuild \in {Str("tokA"), Str("tokB")}
                  => /\ HasHeader(c, "Authorization")
                     /\ c.request.headers["Authorization"]
                          = "Bearer " \o c.tokenAtBuild.s
               /\ c.tokenAtBuild = Null
                  => (HasHeader(c, "Authorization")
                        <=> DescSuppliesHeader(c, "Authorization")))
    /\ [][/\ currentAuthToken' # currentAuthToken => calls' = calls
          /\ \A d \in calls' \ calls : d.tokenAtBuild = currentAuthToken]_vars

C11_Witness ==
    \E c \in calls :
        /\ DescAuthenticated(c)
        /\ c.tokenAtBuild = Str("tokA")
        /\ currentAuthToken = Str("tokB")
        /\ c.request.headers["Authorization"] = "Bearer tokA"

\* C12: when fetch rejects with error e, apiClient rejects with that same e,
\* which has no status and no data.
C12_TransportErrorUnmodified ==
    (done.caller = Caller("direct", 0) /\ done.response.kind = "throw")
    => /\ done.outcome.kind = "reject"
       /\ done.outcome.value = done.response.error
       /\ ErrProp(done.outcome.value, "status") = Undefined
       /\ ErrProp(done.outcome.value, "data") = Undefined

C12_Witness ==
    /\ done.caller = Caller("direct", 0)
    /\ done.response.kind = "throw"
    /\ done.outcome = [kind |-> "reject", value |-> Err("Aborted", <<>>)]

\* C13: an invocation whose fetch settles settles once, either way; it
\* resolves only for a 2xx response; a non-2xx response ends in a rejection
\* with the structured error, a thrown transport error in a rejection.
C13_NoErrorSwallowed ==
    /\ [](done.caller = Caller("direct", 0)
          => /\ done.outcome.kind \in {"resolve", "reject"}
             /\ done.outcome.kind = "resolve"
                => (done.response.kind = "response" /\ Is2xx(done.response.status))
             /\ (done.response.kind = "response" /\ ~Is2xx(done.response.status))
                => /\ done.outcome.kind = "reject"
                   /\ done.outcome.value.t = "error"
                   /\ ErrProp(done.outcome.value, "status")
                        = Num(done.response.status)
             /\ done.response.kind = "throw" => done.outcome.kind = "reject")
    /\ [][/\ (done # NoCall /\ done' # NoCall) => done' = done
          /\ done' # done
             => \/ done' = NoCall
                \/ \E c \in calls : c.caller = done'.caller /\ c \notin calls']_vars

C13_Witness ==
    /\ done.caller = Caller("direct", 0)
    /\ done.response.kind = "response"
    /\ done.response.status = 300
    /\ done.outcome.kind = "reject"
    /\ ErrProp(done.outcome.value, "status") = Num(300)
    /\ calls = {}

\* C14: an invocation calls fetch once, whatever the outcome and also when
\* the token was missing: nothing is sent a second time.
C14_OneFetchPerInvocation ==
    /\ \A c \in calls : c.fetches = 1
    /\ done # NoCall => done.fetches = 1

C14_Witness ==
    /\ done.caller = Caller("direct", 0)
    /\ done.response.kind = "response"
    /\ done.response.status = 404
    /\ done.outcome.kind = "reject"
    /\ done.fetches = 1


\* the core call of the facade invocation under way or just settled
FacadeActive == facade.pc \in {"awaiting", "settled"} /\ facade.name \in ServiceNames
FacadeCore ==
    IF facade.pc = "settled" THEN facade.core
    ELSE CHOOSE c \in calls : c.caller = Caller(facade.name, 0)

\* the filters each query-building facade declares
DeclaredFilters ==
    "getChallengeTemplates" :> {"associated_skill_id", "difficulty"}
    @@ "getMindContent" :> {"category_id", "search"}
    @@ "getExchangeOffers" :> {"offered_skill_id", "desired_skill_id",
                               "search_text", "user_id", "is_active"}

\* the endpoint has the query parameter kv ("key=value") as one of its segments
HasParam(endpoint, kv) ==
    \/ Includes(endpoint \o "&", "?" \o kv \o "&")
    \/ Includes(endpoint \o "&", "&" \o kv \o "&")

\* base, or base?p1, or base?p1&p2
JoinQuery(base, parts) ==
    CASE Len(parts) = 0 -> base
      [] Len(parts) = 1 -> base \o "?" \o parts[1]
      [] OTHER          -> base \o "?" \o parts[1] \o "&" \o parts[2]

\* C15 (as stated): a declared filter is left out of the query string only
\* when it is undefined or absent (or an empty string; for the trimming
\* facade, empty once trimmed); every defined number or boolean, 0 and false
\* included, is serialized as key=value.
C15_OnlyAbsentFiltersDropped ==
    (FacadeActive /\ facade.name \in DOMAIN DeclaredFilters)
    => \A key \in DeclaredFilters[facade.name] :
         LET v == GetProp(facade.arg, key)
         IN  /\ v.t \in {"num", "bool"}
                => HasParam(FacadeCore.endpoint, key \o "=" \o JsToString(v))
             /\ (/\ v.t = "str"
                 /\ v.s # ""
                 /\ ~(facade.name = "getMindContent" /\ Trim(v.s) = ""))
                => Includes(FacadeCore.endpoint, key \o "=")
             /\ v.t = "undefined"
                => ~Includes(FacadeCore.endpoint, key \o "=")

\* C16 (as stated): getExchangeOffers({ search_text: "  ", is_active: false,
\* offered_skill_id: undefined }) calls the core with the endpoint
\* /exchange_offers?search_text=%20%20&is_active=false.
C16_WhitespaceSearchTextPercentEncoded ==
    (/\ FacadeActive
     /\ facade.name = "getExchangeOffers"
     /\ facade.arg = Obj(<< <<"search_text", Str("  ")>>,
                            <<"is_active", Bool(FALSE)>>,
                            <<"offered_skill_id", Undefined>> >>))
    => FacadeCore.endpoint = "/exchange_offers?search_text=%20%20&is_active=false"

\* the search terms of the model and the query value each must produce
\* ("" where the filter must be dropped)
MindSearchExpected ==
    "" :> ""
    @@ "  " :> ""
    @@ "guide" :> "guide"
    @@ "  spaced out search  " :> "spaced+out+search"

\* C17: getMindContent trims the search term before encoding it and drops it
\* when nothing is left; category_id comes before search; a space is encoded
\* as "+", so "  spaced out search  " gives /mind_content?search=spaced+out+search.
C17_MindContentSearchTrimmed ==
    (/\ FacadeActive
     /\ facade.name = "getMindContent"
     /\ GetProp(facade.arg, "category_id") # Num(0))
    => LET category == GetProp(facade.arg, "category_id")
           search   == GetProp(facade.arg, "search")
           catPart  == IF category.t = "num"
                       THEN << "category_id=" \o ToString(category.n) >>
                       ELSE <<>>
           sPart    == IF search.t = "str" /\ MindSearchExpected[search.s] # ""
                       THEN << "search=" \o MindSearchExpected[search.s] >>
                       ELSE <<>>
       IN  /\ FacadeCore.endpoint = JoinQuery("/mind_content", catPart \o sPart)
           /\ FacadeCore.options = [authenticated |-> TRUE]

C17_Witness ==
    /\ FacadeActive
    /\ facade.name = "getMindContent"
    /\ facade.arg = Obj(<< <<"search", Str("  spaced out search  ")>> >>)
    /\ FacadeCore.endpoint = "/mind_content?search=spaced+out+search"

\* C18 (as stated): getChallengeTemplates calls the core with
\* authenticated=true and with /practice_challenges/templates alone when no
\* filter is given, otherwise followed by "?" and the filters given, joined by
\* "&", associated_skill_id before difficulty whatever the order of the keys.
C18_ChallengeTemplatesEndpoint ==
    (FacadeActive /\ facade.name = "getChallengeTemplates")
    => LET skill == GetProp(facade.arg, "associated_skill_id")
           diff  == GetProp(facade.arg, "difficulty")
           skillPart == IF skill.t = "num"
                        THEN << "associated_skill_id=" \o ToString(skill.n) >>
                        ELSE <<>>
           diffPart  == IF diff.t = "str" /\ diff.s # ""
                        THEN << "difficulty=" \o diff.s >>
                        ELSE <<>>
       IN  /\ FacadeCore.endpoint
                = JoinQuery("/practice_challenges/templates", skillPart \o diffPart)
           /\ FacadeCore.options = [authenticated |-> TRUE]

\* the mutating facades: method and path of the one core call of each
MutatingMethod ==
    "submitChallengeCompletion" :> "POST"
    @@ "giveEndorsement" :> "POST"
    @@ "createExchangeOffer" :> "POST"
    @@ "updateExchangeOffer" :> "PATCH"
    @@ "addMindContent" :> "POST"
    @@ "updateMindContent" :> "PUT"

MutatingPath(name, id) ==
    CASE name = "submitChallengeCompletion" -> "/practice_challenges/complete"
      [] name = "giveEndorsement"           -> "/endorsements"
      [] name = "createExchangeOffer"       -> "/exchange_offers"
      [] name = "updateExchangeOffer"       -> "/exchange_offers/" \o id.s
      [] name = "addMindContent"            -> "/mind_content"
      [] name = "updateMindContent"         -> "/mind_content/" \o ToString(id.n)

\* C19: each mutating facade makes one core call with its fixed method and
\* path, authenticated=true and the payload itself as the body, and resolves
\* to the value the core resolves to; submitChallengeCompletion posts to
\* /practice_challenges/complete.
C19_MutatingFacadesPassThrough ==
    (FacadeActive /\ facade.name \in DOMAIN MutatingMethod)
    => /\ facade.coreCalls = 1
       /\ FacadeCore.endpoint = MutatingPath(facade.name, facade.id)
       /\ FacadeCore.options = [method |-> MutatingMethod[facade.name],
                                body |-> facade.arg,
                                authenticated |-> TRUE]
       /\ FacadeCore.request.method = MutatingMethod[facade.name]
       /\ FacadeCore.request.body = Str(JsonStringify(facade.arg))
       /\ facade.pc = "awaiting" => calls = {FacadeCore}
       /\ facade.pc = "settled"
          => /\ calls = {}
             /\ done.outcome.kind = "resolve" => facade.result = done.outcome

C19_Witness ==
    /\ facade.pc = "settled"
    /\ facade.name = "submitChallengeCompletion"
    /\ facade.arg = Obj(<< <<"message", Str("X")>> >>)
    /\ facade.core.endpoint = "/practice_challenges/complete"
    /\ facade.core.request.method = "POST"
    /\ facade.result = [kind |-> "resolve", value |-> Obj(<< <<"id", Str("u1")>> >>)]

\* C20: when the core rejects with e, the facade, whichever it is, rejects
\* with the same e and makes no further core call.
C20_FacadesPassErrorsThrough ==
    (facade.pc = "settled" /\ done # NoCall /\ done.outcome.kind = "reject")
    => /\ facade.result = done.outcome
       /\ facade.coreCalls = 1
       /\ calls = {}

C20_Witness ==
    /\ facade.pc = "settled"
    /\ facade.name = "deleteMindContent"
    /\ done.response.kind = "throw"
    /\ facade.result = [kind |-> "reject",
                        value |-> Err("Network request failed", <<>>)]
    /\ calls = {}


\* C21: the headers of a request start from Content-Type: application/json,
\* the caller's headers are laid over it (the caller's Content-Type wins), and
\* Authorization: Bearer <token> is laid over the result only for an
\* authenticated request built while a token is held; it then replaces an
\* Authorization header of the caller.
C21_HeaderMergeOrder ==
    \A c \in calls :
        LET h  == c.request.headers
            ch == OptHeaders(c.options)
            overlaid == /\ "Authorization" \in DOMAIN h
                        /\ ~("Authorization" \in DOMAIN ch
                              /\ h["Authorization"] = ch["Authorization"])
        IN  /\ DOMAIN h \subseteq {"Content-Type", "Authorization"} \cup DOMAIN ch
            /\ h["Content-Type"] = IF "Content-Type" \in DOMAIN ch
                                   THEN ch["Content-Type"]
                                   ELSE "application/json"
            /\ \A k \in DOMAIN ch \ {"Authorization"} : h[k] = ch[k]
            /\ overlaid => (DescAuthenticated(c) /\ c.tokenAtBuild.t = "str")
            /\ (DescAuthenticated(c) /\ c.tokenAtBuild \in {Str("tokA"), Str("tokB")})
               => h["Authorization"] = "Bearer " \o c.tokenAtBuild.s
            /\ ~overlaid
               => ("Authorization" \in DOMAIN h <=> "Authorization" \in DOMAIN ch)

C21_Witness ==
    \E c \in calls :
        /\ DescAuthenticated(c)
        /\ c.tokenAtBuild = Str("tokB")
        /\ OptHeaders(c.options) = ("Authorization" :> "Basic abc")
        /\ c.request.headers = ("Content-Type" :> "application/json"
                                @@ "Authorization" :> "Bearer tokB")

\* C23: a 2xx response declared as JSON whose body is not valid JSON (an
\* empty body included) makes apiClient reject with the decode exception,
\* which has no status and no data.
C23_UndecodableSuccessRejects ==
    (/\ DirectDone
     /\ Is2xx(done.response.status)
     /\ done.response.contentType \in JsonContentTypes
     /\ done.response.body \in UnparsableTexts)
    => /\ done.outcome.kind = "reject"
       /\ done.outcome.value.t = "error"
       /\ ErrProp(done.outcome.value, "status") = Undefined
       /\ ErrProp(done.outcome.value, "data") = Undefined

C23_Witness ==
    /\ DirectDone
    /\ done.response.status = 204
    /\ done.response.contentType = Str("application/json; charset=utf-8")
    /\ done.response.body = ""
    /\ done.outcome.kind = "reject"
    /\ ErrProp(done.outcome.value, "status") = Undefined

\* C24 (as stated): for a non-2xx response whose body parses as JSON, the
\* rejection's message is the body's message field whenever the field is
\* present, the empty string included, and a fallback text only when it is
\* absent; the rejection carries the status and the parsed body as data.
C24_MessageFieldWhenPresent ==
    (/\ DirectDone
     /\ ~Is2xx(done.response.status)
     /\ done.response.body \in DOMAIN Decoded)
    => LET errorObject == Decoded[done.response.body]
           m           == GetProp(errorObject, "message")
       IN  /\ done.outcome.kind = "reject"
           /\ done.outcome.value.t = "error"
           /\ m.t = "str" => done.outcome.value.message = m.s
           /\ m.t = "undefined"
              => done.outcome.value.message
                   = "HTTP error! status: " \o ToString(done.response.status)
           /\ ErrProp(done.outcome.value, "status") = Num(done.response.status)
           /\ ErrProp(done.outcome.value, "data") = errorObject


\* AuthContext's isAuthenticated: !!user && !!token (line 116)
IsAuthenticated == Truthy(user) /\ Truthy(token)

\* no handler of the provider is suspended
NoHandlerRunning ==
    /\ boot.pc = "done"
    /\ \A i \in 1..MaxSessions : sessions[i].pc = "idle"

\* C25 (as stated): whenever no handler is running and the context reports
\* isAuthenticated, the context token equals the token of the API client.
C25_ContextTokenIsClientToken ==
    (NoHandlerRunning /\ IsAuthenticated) => token = getAuthToken

\* C26 (as stated): a session validation (fetchAndUpdateUserSession or the
\* bootstrap) that was started before a login and fails after it leaves the
\* login in place: both tokens are still the login's and the user is kept.
C26_LoginNotUndoneByStaleValidation ==
    [][(/\ lastOp.op = "login"
        /\ Truthy(lastOp.accessToken)
        /\ lastOp'.op \in {"bootstrapAuth", "fetchAndUpdateUserSession"}
        /\ lastOp'.validation = "failed")
       => /\ currentAuthToken' = lastOp.accessToken
          /\ token' = lastOp.accessToken
          /\ user' = user
          /\ user' # Null]_vars

C29_NoRequestWithoutToken ==
    [][/\ (/\ ~Truthy(currentAuthToken)
           /\ lastOp'.op \in {"bootstrapAuth", "fetchAndUpdateUserSession"}
           /\ lastOp'.validation \in {"none", "started"})
          => (calls' = calls /\ lastOp'.validation = "none")
       /\ (/\ ~Truthy(currentAuthToken)
           /\ boot.pc = "mounting"
           /\ lastOp'.op = "bootstrapAuth")
          => /\ user' = user
             /\ token' = token
             /\ (user = Null /\ token = Null) => ~IsAuthenticated'
             /\ isLoading' = FALSE
             /\ boot'.pc = "done"]_vars

C29_Witness ==
    /\ lastOp = [op |-> "bootstrapAuth", validation |-> "none"]
    /\ \E i \in 1..MaxSessions : sessions[i].pc = "finally"
    /\ calls = {}
    /\ user = Null
    /\ token = Null
    /\ isLoading = FALSE


Issued(before, after) == after \ before

\* C27: handleDeleteOffer issues getMyExchangeOffers only once its
\* deleteExchangeOffer has resolved; when the delete rejects it issues no
\* reload, records the error and resets isLoading to false.
C27_ReloadOnlyAfterDeleteResolved ==
    [][LET settles == /\ offersScreen.del.pc = "awaiting"
                      /\ offersScreen'.del.pc = "idle"
           reload  == \E c \in Issued(calls, calls') :
                          c.caller = Caller("loadMyOffers", ReloadAfterDelete)
       IN  /\ reload => (/\ settles
                         /\ done'.caller = Caller("deleteExchangeOffer", 0)
                         /\ done'.outcome.kind = "resolve"
                         /\ \A c \in calls' :
                                c.caller # Caller("deleteExchangeOffer", 0))
           /\ (settles /\ done'.outcome.kind = "resolve") => reload
           /\ (settles /\ done'.outcome.kind = "reject")
              => /\ Issued(calls, calls') = {}
                 /\ offersScreen'.error.t = "str"
                 /\ offersScreen'.error.s # ""
                 /\ offersScreen'.isLoading = FALSE
                 /\ offersScreen'.loads = offersScreen.loads]_vars

C27_Witness ==
    /\ offersScreen.del.pc = "idle"
    /\ done.caller = Caller("deleteExchangeOffer", 0)
    /\ done.outcome.kind = "reject"
    /\ offersScreen.error = Str("X")
    /\ offersScreen.isLoading = FALSE
    /\ offersScreen.loads[ReloadAfterDelete] = "idle"
    /\ \A c \in calls : c.caller # Caller("loadMyOffers", ReloadAfterDelete)


\* C30: handleSubmitEndorsement makes no giveEndorsement call when the
\* endorsee is the current user, nor for a skill-related endorsement without
\* a skill; whenever it has made the call, isLoading is false again once the
\* call has settled.
C30_NoInvalidEndorsementDispatched ==
    [][/\ \A c \in Issued(calls, calls') :
            c.caller = Caller("giveEndorsement", 0)
            => /\ ~(user # Null
                    /\ GetProp(user, "id") = Str(endorseScreen.endorseeId))
               /\ ~(endorseScreen.endorsementType = "skill_related"
                    /\ endorseScreen.skillId = "")
               /\ GetProp(c.options["body"], "endorsee_id")
                    = Str(endorseScreen.endorseeId)
               /\ endorseScreen.endorsementType = "skill_related"
                  => GetProp(c.options["body"], "skill_id") = Str("skill_1")
               /\ endorseScreen'.isLoading
       /\ (endorseScreen.pc = "submitting" /\ endorseScreen'.pc # "submitting")
          => /\ endorseScreen'.isLoading = FALSE
             /\ \A c \in calls' : c.caller # Caller("giveEndorsement", 0)]_vars

C30_Witness ==
    /\ endorseScreen.pc = "idle"
    /\ endorseScreen.lastSubmit = "self"
    /\ user # Null
    /\ GetProp(user, "id") = Str(endorseScreen.endorseeId)
    /\ endorseScreen.isLoading = FALSE
    /\ calls = {}
    /\ done = NoCall

====
